---- MODULE Spec2Model ----
(***************************************************************************)
(* Model of backend/server.js of FindMentor: the question classifier       *)
(* classifyMathQuestion and the five /ask request handlers.                *)
(*                                                                         *)
(* A string is a sequence of characters; a character is a one-element      *)
(* string.  Characters outside ASCII are written by name: "int" is the     *)
(* integral sign, "sum" the n-ary summation, "sqrt" the radical, "sup2"    *)
(* and "sup3" the superscripts, "ne" "le" "ge" the relations, "inf"        *)
(* infinity, "partial" and "nabla" the differential signs, "pi" "theta"    *)
(* "alpha" "beta" "gamma" "delta" the lowercase Greek letters and "PI"     *)
(* "THETA" "ALPHA" "BETA" "GAMMA" "DELTA" their capitals.  "LF" is the     *)
(* line feed.                                                              *)
(***************************************************************************)
EXTENDS Integers, Sequences, FiniteSets, TLC

(***************************************************************************)
(* Characters and String.prototype methods                                 *)
(***************************************************************************)
UpperLatin ==
  <<"A", "B", "C", "D", "E", "F", "G", "H", "I", "J", "K", "L", "M",
    "N", "O", "P", "Q", "R", "S", "T", "U", "V", "W", "X", "Y", "Z">>

LowerLatin ==
  <<"a", "b", "c", "d", "e", "f", "g", "h", "i", "j", "k", "l", "m",
    "n", "o", "p", "q", "r", "s", "t", "u", "v", "w", "x", "y", "z">>

UpperGreek == <<"PI", "THETA", "ALPHA", "BETA", "GAMMA", "DELTA">>

LowerGreek == <<"pi", "theta", "alpha", "beta", "gamma", "delta">>

Range(s) == {s[i] : i \in 1..Len(s)}

Digits == {"0", "1", "2", "3", "4", "5", "6", "7", "8", "9"}

\* the characters the regular expression class [a-z] matches under the i flag
AsciiLetters == Range(UpperLatin) \cup Range(LowerLatin)

\* \w of a regular expression without the u flag
WordChars == AsciiLetters \cup Digits \cup {"_"}

\* \s of a regular expression (the ones the inputs use)
WhiteSpace == {" ", "LF"}

\* the lowercase of every character that has one
LowerMap ==
  [c \in Range(UpperLatin) \cup Range(UpperGreek) |->
     IF c \in Range(UpperLatin)
       THEN LowerLatin[CHOOSE i \in 1..26 : UpperLatin[i] = c]
       ELSE LowerGreek[CHOOSE i \in 1..6 : UpperGreek[i] = c]]

\* String.prototype.toLowerCase
toLowerCase(s) ==
  [i \in 1..Len(s) |-> IF s[i] \in DOMAIN LowerMap THEN LowerMap[s[i]] ELSE s[i]]

\* String.prototype.includes: k occurs in s as a contiguous substring
includes(s, k) ==
  \E i \in 0..(Len(s) - Len(k)) : \A j \in 1..Len(k) : s[i + j] = k[j]

(***************************************************************************)
(* classifyMathQuestion                                                    *)
(***************************************************************************)
mathKeywords ==
  << <<"s", "o", "l", "v", "e">>,
     <<"c", "a", "l", "c", "u", "l", "a", "t", "e">>,
     <<"f", "i", "n", "d">>,
     <<"c", "o", "m", "p", "u", "t", "e">>,
     <<"e", "v", "a", "l", "u", "a", "t", "e">>,
     <<"s", "i", "m", "p", "l", "i", "f", "y">>,
     <<"e", "q", "u", "a", "t", "i", "o", "n">>,
     <<"i", "n", "e", "q", "u", "a", "l", "i", "t", "y">>,
     <<"d", "e", "r", "i", "v", "a", "t", "i", "v", "e">>,
     <<"i", "n", "t", "e", "g", "r", "a", "l">>,
     <<"l", "i", "m", "i", "t">>,
     <<"m", "a", "t", "r", "i", "x">>,
     <<"p", "o", "l", "y", "n", "o", "m", "i", "a", "l">>,
     <<"q", "u", "a", "d", "r", "a", "t", "i", "c">>,
     <<"l", "i", "n", "e", "a", "r">>,
     <<"t", "r", "i", "g", "o", "n", "o", "m", "e", "t", "r", "y">>,
     <<"g", "e", "o", "m", "e", "t", "r", "y">>,
     <<"a", "l", "g", "e", "b", "r", "a">>,
     <<"c", "a", "l", "c", "u", "l", "u", "s">>,
     <<"s", "t", "a", "t", "i", "s", "t", "i", "c", "s">>,
     <<"p", "r", "o", "b", "a", "b", "i", "l", "i", "t", "y">>,
     <<"f", "r", "a", "c", "t", "i", "o", "n">>,
     <<"p", "e", "r", "c", "e", "n", "t", "a", "g", "e">>,
     <<"r", "a", "t", "i", "o">>,
     <<"p", "r", "o", "p", "o", "r", "t", "i", "o", "n">>,
     <<"a", "r", "e", "a">>,
     <<"v", "o", "l", "u", "m", "e">>,
     <<"p", "e", "r", "i", "m", "e", "t", "e", "r">>,
     <<"a", "n", "g", "l", "e">>,
     <<"t", "r", "i", "a", "n", "g", "l", "e">>,
     <<"c", "i", "r", "c", "l", "e">>,
     <<"s", "q", "u", "a", "r", "e">>,
     <<"r", "e", "c", "t", "a", "n", "g", "l", "e">>,
     <<"g", "r", "a", "p", "h">>,
     <<"f", "u", "n", "c", "t", "i", "o", "n">>,
     <<"l", "o", "g", "a", "r", "i", "t", "h", "m">>,
     <<"e", "x", "p", "o", "n", "e", "n", "t", "i", "a", "l">>,
     <<"s", "i", "n">>,
     <<"c", "o", "s">>,
     <<"t", "a", "n">> >>

mathSymbols ==
  << <<"+">>, <<"-">>, <<"*">>, <<"/">>, <<"=">>, <<"ne">>, <<"<">>, <<">">>,
     <<"le">>, <<"ge">>, <<"sqrt">>, <<"sup2">>, <<"sup3">>, <<"int">>,
     <<"sum">>, <<"pi">>, <<"inf">>, <<"theta">>, <<"alpha">>, <<"beta">>,
     <<"gamma">>, <<"DELTA">>, <<"partial">>, <<"nabla">> >>

\* mathKeywords.some(keyword => q.includes(keyword))
hasMathKeyword(q) ==
  \E n \in 1..Len(mathKeywords) : includes(q, mathKeywords[n])

\* mathSymbols.some(symbol => question.includes(symbol))
hasMathSymbol(question) ==
  \E n \in 1..Len(mathSymbols) : includes(question, mathSymbols[n])

\* the class [\d+\-*/=()23(superscript) sqrt int sum] of the expression test
ExpressionChars ==
  Digits \cup {"+", "-", "*", "/", "=", "(", ")", "sup2", "sup3", "sqrt", "int", "sum"}

\* /[\d+\-*/=()...]/.test(question)
hasMathExpression(question) ==
  \E i \in 1..Len(question) : question[i] \in ExpressionChars

\* the class [=+\-*/] of the variable test
OperatorChars == {"=", "+", "-", "*", "/"}

\* the alternatives of \b(x|y|z|a|b|c|n|m|t)\b, matched under the i flag
VariableNames ==
  {"x", "y", "z", "a", "b", "c", "n", "m", "t",
   "X", "Y", "Z", "A", "B", "C", "N", "M", "T"}

\* \b between positions i and i+1 of s (i = 0: the start, i = Len(s): the end)
WordBoundary(s, i) ==
  LET before == i >= 1 /\ s[i] \in WordChars
      after  == i < Len(s) /\ s[i + 1] \in WordChars
  IN  before # after

\* /[a-z]\s*[=+\-*/]|[=+\-*/]\s*[a-z]|\b(x|y|z|a|b|c|n|m|t)\b/i.test(question)
hasVariables(question) ==
  LET n == Len(question)
      \* positions i < j with only white space strictly between them
      Gap(i, j) == \A k \in (i + 1)..(j - 1) : question[k] \in WhiteSpace
  IN  \/ \E i \in 1..n, j \in 1..n :
           /\ i < j
           /\ question[i] \in AsciiLetters
           /\ question[j] \in OperatorChars
           /\ Gap(i, j)
      \/ \E i \in 1..n, j \in 1..n :
           /\ i < j
           /\ question[i] \in OperatorChars
           /\ question[j] \in AsciiLetters
           /\ Gap(i, j)
      \/ \E i \in 1..n :
           /\ question[i] \in VariableNames
           /\ WordBoundary(question, i - 1)
           /\ WordBoundary(question, i)

\* the condition with the symbols looked up in the lowercased text
IsMathSymbolFolded(question) ==
  LET q == toLowerCase(question)
  IN  hasMathKeyword(q) \/ hasMathSymbol(q)
        \/ (hasMathExpression(question) /\ hasVariables(question))

\* the condition of the outer if: is this a math question at all
IsMath(question) ==
  LET q == toLowerCase(question)
  IN  hasMathKeyword(q) \/ hasMathSymbol(question)
        \/ (hasMathExpression(question) /\ hasVariables(question))

integrate == <<"i", "n", "t", "e", "g", "r", "a", "t", "e">>

integration == <<"i", "n", "t", "e", "g", "r", "a", "t", "i", "o", "n">>

derivative == <<"d", "e", "r", "i", "v", "a", "t", "i", "v", "e">>

differentiate == <<"d", "i", "f", "f", "e", "r", "e", "n", "t", "i", "a", "t", "e">>

ddx == <<"d", "/", "d", "x">>

matrix == <<"m", "a", "t", "r", "i", "x">>

determinant == <<"d", "e", "t", "e", "r", "m", "i", "n", "a", "n", "t">>

trig == <<"t", "r", "i", "g">>

sin == <<"s", "i", "n">>

cos == <<"c", "o", "s">>

tan == <<"t", "a", "n">>

geometry == <<"g", "e", "o", "m", "e", "t", "r", "y">>

area == <<"a", "r", "e", "a">>

volume == <<"v", "o", "l", "u", "m", "e">>

perimeter == <<"p", "e", "r", "i", "m", "e", "t", "e", "r">>

probability == <<"p", "r", "o", "b", "a", "b", "i", "l", "i", "t", "y">>

statistics == <<"s", "t", "a", "t", "i", "s", "t", "i", "c", "s">>

\* the chain with the tests for calculus and integrals in the other order
SpecificTypeCalculusFirst(q) ==
  IF includes(q, derivative) \/ includes(q, differentiate) \/ includes(q, ddx)
    THEN "calculus"
  ELSE IF includes(q, <<"int">>) \/ includes(q, integrate) \/ includes(q, integration)
    THEN "integrals"
  ELSE IF includes(q, matrix) \/ includes(q, determinant)
    THEN "linear_algebra"
  ELSE IF includes(q, trig) \/ includes(q, sin) \/ includes(q, cos) \/ includes(q, tan)
    THEN "trigonometry"
  ELSE IF includes(q, geometry) \/ includes(q, area) \/ includes(q, volume)
            \/ includes(q, perimeter)
    THEN "geometry"
  ELSE IF includes(q, probability) \/ includes(q, statistics)
    THEN "statistics"
  ELSE "math"

\* the chain of ifs inside the outer if, on the lowercased text q
SpecificType(q) ==
  IF includes(q, <<"int">>) \/ includes(q, integrate) \/ includes(q, integration)
    THEN "integrals"
  ELSE IF includes(q, derivative) \/ includes(q, differentiate) \/ includes(q, ddx)
    THEN "calculus"
  ELSE IF includes(q, matrix) \/ includes(q, determinant)
    THEN "linear_algebra"
  ELSE IF includes(q, trig) \/ includes(q, sin) \/ includes(q, cos) \/ includes(q, tan)
    THEN "trigonometry"
  ELSE IF includes(q, geometry) \/ includes(q, area) \/ includes(q, volume)
            \/ includes(q, perimeter)
    THEN "geometry"
  ELSE IF includes(q, probability) \/ includes(q, statistics)
    THEN "statistics"
  ELSE "math"

classifyMathQuestion(question) ==
  IF IsMath(question) THEN SpecificType(toLowerCase(question)) ELSE "unknown"

(***************************************************************************)
(* Bounds                                                                  *)
(***************************************************************************)
\* fragments concatenated into one classifier input
MaxParts == 2

\* characters of a question, an OCR text or a transcript of a request
MaxTextLen == 1

\* requests in flight under Spec
NumReq == 1

\* requests in flight under SpecConcurrent
NumConcurrent == 2

(***************************************************************************)
(* State                                                                   *)
(***************************************************************************)
VARIABLES
  arg,        \* the argument of classifyMathQuestion
  tag,        \* its return value, "pending" before the call
  reqs,       \* per request: the handler's position, req, its locals, and res
  uploads,    \* the files in uploadsDir, each named by the request multer stored it for
  removedBy   \* per upload path: the requests whose unlinkSync removed it

vars == <<arg, tag, reqs, uploads, removedBy>>

(***************************************************************************)
(* Inputs of the classifier                                                *)
(***************************************************************************)
Fragments ==
  { integrate, <<"i", "n", "t", "e", "g", "r", "a", "l">>, <<"int">>,
    derivative, ddx, matrix, sin, <<"S", "i", "n">>, area, probability,
    <<"s", "o", "l", "v", "e">>, <<"S", "O", "L", "V", "E">>,
    <<"w", "h", "a", "t">>, <<"DELTA">>, <<"delta">>, <<"theta">>,
    <<"(">>, <<"2">>, <<"x">>, <<"a">>, <<" ">>, <<"+">>, <<"?">> }

RECURSIVE Concat(_)
Concat(parts) ==
  IF parts = <<>> THEN <<>> ELSE Head(parts) \o Concat(Tail(parts))

Inputs ==
  {Concat(parts) : parts \in UNION {[1..n -> Fragments] : n \in 0..MaxParts}}

(***************************************************************************)
(* Requests                                                                *)
(***************************************************************************)
Requests == 1..(IF NumReq > NumConcurrent THEN NumReq ELSE NumConcurrent)

TextAlphabet == {" ", "Z"}

Strings == UNION {[1..n -> TextAlphabet] : n \in 0..MaxTextLen}

\* an optional string: {} is undefined, {s} is the string s
Undefined == {}

Optional == {Undefined} \cup {{s} : s \in Strings}

\* the string of an optional that has one
StringOf(v) == CHOOSE s \in v : TRUE

\* ToBoolean of an optional string: undefined and "" are falsy
Truthy(v) == \E s \in v : Len(s) > 0

\* the ResolvedAnswer values resolveQuery may resolve with
Results ==
  { [success |-> TRUE, error |-> ""],
    [success |-> FALSE, error |-> "generation failed"] }

\* the page counts extractTextFromPDFBuffer may report, as the template prints them
PageCounts == {<<"1">>, <<"1", "2">>}

IdleRequest ==
  [ pc       |-> "idle",      \* idle, extract, resolve, done or escaped
    route    |-> "none",
    file     |-> FALSE,       \* req.file is set
    question |-> Undefined,   \* req.body.question
    text     |-> Undefined,   \* extractedText / text / pdfResult.text
    error    |-> "none",      \* the step whose exception entered the catch block
    calls    |-> <<>>,        \* the argument lists of the calls of resolveQuery
    sent     |-> <<>>,        \* the bodies passed to res.json
    unlinks  |-> 0,           \* calls of unlinkSync that removed the file
    absent   |-> 0 ]          \* calls of unlinkSync on a path with no file

\* what a handler works on: its request and the uploads directory
World(r) == [req |-> reqs[r], uploads |-> uploads, removedBy |-> removedBy]

Commit(r, w) ==
  /\ reqs' = [reqs EXCEPT ![r] = w.req]
  /\ uploads' = w.uploads
  /\ removedBy' = w.removedBy
  /\ UNCHANGED <<arg, tag>>

\* upload.single(field) and the body parsers: req.file, req.body, the stored file
Multer(r, w, route, hasFile, q) ==
  [w EXCEPT !.req = [@ EXCEPT !.route = route, !.file = hasFile, !.question = q],
            !.uploads = IF hasFile THEN @ \cup {r} ELSE @]

\* res.status(status).json(body) or res.json(body), after which the handler returns
Respond(w, status, success, error, kind) ==
  [w EXCEPT !.req =
     [@ EXCEPT !.sent = Append(@, [status |-> status, success |-> success,
                                   error |-> error, kind |-> kind]),
               !.pc = "done"]]

\* fs.unlinkSync(req.file.path) when it removes the file
Removed(r, w) ==
  [w EXCEPT !.uploads = @ \ {r},
            !.removedBy = [@ EXCEPT ![r] = @ \cup {r}],
            !.req = [@ EXCEPT !.unlinks = @ + 1]]

\* fs.unlinkSync(req.file.path) when it throws: ENOENT counts as a call on no file
Threw(r, w) ==
  IF r \in w.uploads THEN w ELSE [w EXCEPT !.req = [@ EXCEPT !.absent = @ + 1]]

\* resolveQuery called twice in a row with the same arguments
CallResolveQueryTwice(w, query, context) ==
  [w EXCEPT !.req =
     [@ EXCEPT !.calls = @ \o << [query |-> query, context |-> context],
                                 [query |-> query, context |-> context] >>,
               !.pc = "resolve"]]

\* await resolveQuery(query, { context }): the call is made and the handler waits
CallResolveQuery(w, query, context) ==
  [w EXCEPT !.req =
     [@ EXCEPT !.calls = Append(@, [query |-> query, context |-> context]),
               !.pc = "resolve"]]

\* the catch block of POST /ask
AskCatch(w, step) ==
  Respond([w EXCEPT !.req = [@ EXCEPT !.error = step]],
          500, FALSE, "Internal server error", "error")

\* the catch block of the four upload handlers; cleanupThrows: its unlinkSync throws
Catch(r, w, step, cleanupThrows, error) ==
  LET c == [w EXCEPT !.req = [@ EXCEPT !.error = step]]
  IN  IF c.req.file /\ r \in c.uploads
        THEN IF cleanupThrows
               THEN [c EXCEPT !.req = [@ EXCEPT !.pc = "escaped"]]
               ELSE Respond(Removed(r, c), 500, FALSE, error, "error")
        ELSE Respond(c, 500, FALSE, error, "error")

\* the leading text of the context of POST /ask/image
ImagePrefix ==
  <<"T", "h", "i", "s", " ", "q", "u", "e", "s", "t", "i", "o", "n", " ",
    "w", "a", "s", " ", "e", "x", "t", "r", "a", "c", "t", "e", "d", " ",
    "f", "r", "o", "m", " ", "a", "n", " ", "i", "m", "a", "g", "e", ".",
    " ", "O", "r", "i", "g", "i", "n", "a", "l", " ", "e", "x", "t", "r",
    "a", "c", "t", "e", "d", " ", "t", "e", "x", "t", ":", " ">>

\* the leading text of the context of POST /ask/audio
AudioPrefix ==
  <<"T", "h", "i", "s", " ", "q", "u", "e", "s", "t", "i", "o", "n", " ",
    "w", "a", "s", " ", "t", "r", "a", "n", "s", "c", "r", "i", "b", "e",
    "d", " ", "f", "r", "o", "m", " ", "a", "n", " ", "a", "u", "d", "i",
    "o", " ", "m", "e", "s", "s", "a", "g", "e", ".", " ", "O", "r", "i",
    "g", "i", "n", "a", "l", " ", "t", "r", "a", "n", "s", "c", "r", "i",
    "p", "t", ":", " ">>

\* the leading text of the context of POST /ask/video
VideoPrefix ==
  <<"T", "h", "i", "s", " ", "q", "u", "e", "s", "t", "i", "o", "n", " ",
    "w", "a", "s", " ", "t", "r", "a", "n", "s", "c", "r", "i", "b", "e",
    "d", " ", "f", "r", "o", "m", " ", "a", " ", "v", "i", "d", "e", "o",
    ".", " ", "O", "r", "i", "g", "i", "n", "a", "l", " ", "t", "r", "a",
    "n", "s", "c", "r", "i", "p", "t", ":", " ">>

\* the context built from the lowercased text
ImageContextLowered(text) == ImagePrefix \o toLowerCase(text)

\* `This question was extracted from an image. Original extracted text: ${extractedText}`
ImageContext(text) == ImagePrefix \o text

\* `This question was transcribed from an audio message. Original transcript: ${text}`
AudioContext(text) == AudioPrefix \o text

\* `This question was transcribed from a video. Original transcript: ${text}`
VideoContext(text) == VideoPrefix \o text

\* the cap of the PDF excerpt
PdfContextChars == 2000

\* String.prototype.substring(0, n)
substring0(s, n) == SubSeq(s, 1, IF Len(s) < n THEN Len(s) ELSE n)

\* `Context from PDF (${pdfResult.pages} pages):\n${pdfResult.text.substring(0, 2000)}...`
PdfContext(pages, text) ==
  <<"C", "o", "n", "t", "e", "x", "t", " ", "f", "r", "o", "m", " ", "P", "D", "F", " ", "(">>
    \o pages \o <<" ", "p", "a", "g", "e", "s", ")", ":", "LF">>
    \o substring0(text, PdfContextChars) \o <<".", ".", ".">>

(***************************************************************************)
(* POST /ask                                                               *)
(***************************************************************************)
\* the handler without the check of the question
AskStartUnchecked(r) ==
  /\ reqs[r].pc = "idle"
  /\ \E q \in Optional \ {Undefined} :
       Commit(r, CallResolveQuery(Multer(r, World(r), "ask", FALSE, q),
                                  StringOf(q), Undefined))

\* the handler up to its await: the question is validated, resolveQuery called
AskStart(r) ==
  /\ reqs[r].pc = "idle"
  /\ \E q \in Optional :
       LET w == Multer(r, World(r), "ask", FALSE, q)
       IN  Commit(r, IF ~Truthy(q)
                       THEN Respond(w, 400, FALSE, "Question is required", "error")
                       ELSE CallResolveQuery(w, StringOf(q), Undefined))

\* resolveQuery settles: res.json(result), or the catch block
AskResolved(r) ==
  /\ reqs[r].pc = "resolve"
  /\ reqs[r].route = "ask"
  /\ \E rejected \in BOOLEAN, result \in Results :
       Commit(r, IF rejected
                   THEN AskCatch(World(r), "resolve")
                   ELSE Respond(World(r), 200, result.success, result.error, "answer"))

(***************************************************************************)
(* The upload handlers up to their first await                             *)
(***************************************************************************)
\* image and pdf: req.file is checked, fs.readFileSync reads the upload (readThrows:
\* it, or imageToBase64 after it, throws), the extraction is started
ReadUpload(r, route, hasFile, q, readThrows, cleanupThrows, required, failed) ==
  LET w == Multer(r, World(r), route, hasFile, q)
  IN  IF ~hasFile THEN Respond(w, 400, FALSE, required, "error")
      ELSE IF readThrows THEN Catch(r, w, "read", cleanupThrows, failed)
      ELSE [w EXCEPT !.req = [@ EXCEPT !.pc = "extract"]]

\* audio and video: req.file is checked, fs.createReadStream opens the upload, the
\* transcription is started
StreamUpload(r, route, hasFile, required) ==
  LET w == Multer(r, World(r), route, hasFile, Undefined)
  IN  IF ~hasFile THEN Respond(w, 400, FALSE, required, "error")
      ELSE [w EXCEPT !.req = [@ EXCEPT !.pc = "extract"]]

ImageStart(r) ==
  /\ reqs[r].pc = "idle"
  /\ \E hasFile, readThrows, cleanupThrows \in BOOLEAN :
       Commit(r, ReadUpload(r, "image", hasFile, Undefined, readThrows, cleanupThrows,
                            "Image file is required", "Failed to process image"))

PdfStart(r) ==
  /\ reqs[r].pc = "idle"
  /\ \E hasFile, readThrows, cleanupThrows \in BOOLEAN, q \in Optional :
       Commit(r, ReadUpload(r, "pdf", hasFile, q, readThrows, cleanupThrows,
                            "PDF file is required", "Failed to process PDF"))

AudioStart(r) ==
  /\ reqs[r].pc = "idle"
  /\ \E hasFile \in BOOLEAN :
       Commit(r, StreamUpload(r, "audio", hasFile, "Audio file is required"))

VideoStart(r) ==
  /\ reqs[r].pc = "idle"
  /\ \E hasFile \in BOOLEAN :
       Commit(r, StreamUpload(r, "video", hasFile, "Video file is required"))

(***************************************************************************)
(* The upload handlers from the extraction to the call of resolveQuery     *)
(***************************************************************************)
\* processImage settles with outcome "text" (success), "failed" (success: false) or
\* "rejected"; then unlinkSync (unlinkThrows: it throws), the check, resolveQuery
ImageProcessed(r) ==
  /\ reqs[r].pc = "extract"
  /\ reqs[r].route = "image"
  /\ \E outcome \in {"text", "failed", "rejected"}, text \in Strings,
        unlinkThrows, cleanupThrows \in BOOLEAN :
       LET w == [World(r) EXCEPT !.req =
                   [@ EXCEPT !.text = IF outcome = "text" THEN {text} ELSE Undefined]]
           failed == "Failed to process image"
       IN  Commit(r,
             IF outcome = "rejected" THEN Catch(r, w, "extract", cleanupThrows, failed)
             ELSE IF unlinkThrows \/ r \notin w.uploads
               THEN Catch(r, Threw(r, w), "unlink", cleanupThrows, failed)
             ELSE IF outcome = "failed"
               THEN Respond(Removed(r, w), 400, FALSE, failed, "error")
             ELSE CallResolveQuery(Removed(r, w), text, {ImageContext(text)}))

\* extractTextFromPDFBuffer settles; then unlinkSync, the check,
\* extractQuestionsFromPDF (questionsThrow: it throws), and either resolveQuery on
\* req.body.question or the list of extracted questions
PdfExtracted(r) ==
  /\ reqs[r].pc = "extract"
  /\ reqs[r].route = "pdf"
  /\ \E outcome \in {"text", "failed", "rejected"}, text \in Strings,
        pages \in PageCounts, unlinkThrows, questionsThrow, cleanupThrows \in BOOLEAN :
       LET w == [World(r) EXCEPT !.req =
                   [@ EXCEPT !.text = IF outcome = "text" THEN {text} ELSE Undefined]]
           failed == "Failed to process PDF"
       IN  Commit(r,
             IF outcome = "rejected" THEN Catch(r, w, "extract", cleanupThrows, failed)
             ELSE IF unlinkThrows \/ r \notin w.uploads
               THEN Catch(r, Threw(r, w), "unlink", cleanupThrows, failed)
             ELSE IF outcome = "failed"
               THEN Respond(Removed(r, w), 400, FALSE,
                            "Failed to extract text from PDF", "error")
             ELSE IF questionsThrow
               THEN Catch(r, Removed(r, w), "questions", cleanupThrows, failed)
             ELSE IF Truthy(w.req.question)
               THEN CallResolveQuery(Removed(r, w), StringOf(w.req.question),
                                     {PdfContext(pages, text)})
             ELSE Respond(Removed(r, w), 200, TRUE, "", "questions"))

\* groq.audio.transcriptions.create settles; then unlinkSync, the check of the
\* transcript, resolveQuery
Transcribed(r, w, rejected, text, unlinkThrows, cleanupThrows, context, failed, empty) ==
  LET heard == [w EXCEPT !.req = [@ EXCEPT !.text = {text}]]
  IN  IF rejected THEN Catch(r, w, "extract", cleanupThrows, failed)
      ELSE IF unlinkThrows \/ r \notin w.uploads
        THEN Catch(r, Threw(r, heard), "unlink", cleanupThrows, failed)
      ELSE IF ~Truthy({text})
        THEN Respond(Removed(r, heard), 400, FALSE, empty, "error")
      ELSE CallResolveQuery(Removed(r, heard), text, {context})

AudioTranscribed(r) ==
  /\ reqs[r].pc = "extract"
  /\ reqs[r].route = "audio"
  /\ \E rejected, unlinkThrows, cleanupThrows \in BOOLEAN, text \in Strings :
       Commit(r, Transcribed(r, World(r), rejected, text, unlinkThrows, cleanupThrows,
                             AudioContext(text), "Failed to process audio",
                             "Could not transcribe audio"))

VideoTranscribed(r) ==
  /\ reqs[r].pc = "extract"
  /\ reqs[r].route = "video"
  /\ \E rejected, unlinkThrows, cleanupThrows \in BOOLEAN, text \in Strings :
       Commit(r, Transcribed(r, World(r), rejected, text, unlinkThrows, cleanupThrows,
                             VideoContext(text), "Failed to process video",
                             "Could not transcribe video"))

(***************************************************************************)
(* The upload handlers after resolveQuery                                  *)
(***************************************************************************)
\* resolveQuery settles: res.json({...result, ...}), or the catch block
UploadResolved(r, route, failed) ==
  /\ reqs[r].pc = "resolve"
  /\ reqs[r].route = route
  /\ \E rejected, cleanupThrows \in BOOLEAN, result \in Results :
       Commit(r, IF rejected
                   THEN Catch(r, World(r), "resolve", cleanupThrows, failed)
                   ELSE Respond(World(r), 200, result.success, result.error, "answer"))

ImageResolved(r) == UploadResolved(r, "image", "Failed to process image")

PdfResolved(r) == UploadResolved(r, "pdf", "Failed to process PDF")

AudioResolved(r) == UploadResolved(r, "audio", "Failed to process audio")

VideoResolved(r) == UploadResolved(r, "video", "Failed to process video")

(***************************************************************************)
(* The classifier and the specifications                                   *)
(***************************************************************************)
Classify ==
  /\ tag = "pending"
  /\ tag' = classifyMathQuestion(arg)
  /\ UNCHANGED <<arg, reqs, uploads, removedBy>>

Idle ==
  /\ reqs = [r \in Requests |-> IdleRequest]
  /\ uploads = {}
  /\ removedBy = [r \in Requests |-> {}]

Init ==
  /\ arg = <<>>
  /\ tag = "pending"
  /\ Idle

InitClassify ==
  /\ arg \in Inputs
  /\ tag = "pending"
  /\ Idle

Handler(r) ==
  \/ PdfStart(r)
  \/ PdfExtracted(r)
  \/ PdfResolved(r)
  \/ AskStart(r)
  \/ AskResolved(r)
  \/ ImageStart(r)
  \/ ImageProcessed(r)
  \/ ImageResolved(r)
  \/ AudioStart(r)
  \/ AudioTranscribed(r)
  \/ AudioResolved(r)
  \/ VideoStart(r)
  \/ VideoTranscribed(r)
  \/ VideoResolved(r)

Next == \E r \in 1..NumReq : Handler(r)

NextConcurrent == \E r \in 1..NumConcurrent : Handler(r)

NextClassify == Classify

\* the handlers of one process serving NumReq requests
Spec == Init /\ [][Next]_vars

\* the handlers serving NumConcurrent requests whose awaits interleave
SpecConcurrent == Init /\ [][NextConcurrent]_vars

\* classifyMathQuestion applied to each input
SpecClassify == InitClassify /\ [][NextClassify]_vars

(***************************************************************************)
(* Properties of classifyMathQuestion, under SpecClassify                  *)
(***************************************************************************)
Classified == tag # "pending"

\* the rules of the classification, in their order of priority
PriorityRules ==
  << [terms |-> {<<"int">>, integrate, integration}, tag |-> "integrals"],
     [terms |-> {derivative, differentiate, ddx}, tag |-> "calculus"],
     [terms |-> {matrix, determinant}, tag |-> "linear_algebra"],
     [terms |-> {trig, sin, cos, tan}, tag |-> "trigonometry"],
     [terms |-> {geometry, area, volume, perimeter}, tag |-> "geometry"],
     [terms |-> {probability, statistics}, tag |-> "statistics"] >>

RuleMatches(q, n) == \E term \in PriorityRules[n].terms : includes(q, term)

MatchingRules(q) == {n \in 1..Len(PriorityRules) : RuleMatches(q, n)}

FirstRuleTag(q) ==
  IF MatchingRules(q) = {} THEN "math"
  ELSE PriorityRules[CHOOSE n \in MatchingRules(q) :
                       \A k \in MatchingRules(q) : n <= k].tag

\* C1: whenever the text passes the "is this math" gate, the tag returned is that of
\* the lowest-numbered rule whose term the text contains (case-insensitively), and
\* "math" when no rule matches.
C1_FirstMatchingRule ==
  (Classified /\ IsMath(arg)) => tag = FirstRuleTag(toLowerCase(arg))

\* a text matching rules 1 and 2 got the tag of rule 1
C1_Witness ==
  /\ tag = "integrals"
  /\ RuleMatches(toLowerCase(arg), 1)
  /\ RuleMatches(toLowerCase(arg), 2)

NoGateCondition(s) ==
  /\ ~hasMathKeyword(toLowerCase(s))
  /\ ~hasMathSymbol(s)
  /\ ~(hasMathExpression(s) /\ hasVariables(s))

HasDigit(s) == \E i \in 1..Len(s) : s[i] \in Digits

\* C2 as stated: the result is "unknown" exactly when no gate condition holds; in
\* particular for the empty string and for every text with no keyword, no symbol and
\* no digit.
C2_Original ==
  Classified =>
    /\ (tag = "unknown") <=> NoGateCondition(arg)
    /\ arg = <<>> => tag = "unknown"
    /\ (~hasMathKeyword(toLowerCase(arg)) /\ ~hasMathSymbol(arg) /\ ~HasDigit(arg))
         => tag = "unknown"

\* C2 as amended: the result is "unknown" exactly when no gate condition holds; in
\* particular for the empty string and for every text with no keyword, no symbol and
\* no expression character (a digit, an operator, a parenthesis, a superscript, the
\* radical, the integral or the summation sign).
C2_UnknownIffNoGate ==
  Classified =>
    /\ (tag = "unknown") <=> NoGateCondition(arg)
    /\ arg = <<>> => tag = "unknown"
    /\ (~hasMathKeyword(toLowerCase(arg)) /\ ~hasMathSymbol(arg)
          /\ ~hasMathExpression(arg))
         => tag = "unknown"

\* a text with an expression character and letters, but no variable-like token, is
\* "unknown"
C2_Witness ==
  /\ tag = "unknown"
  /\ hasMathExpression(arg)
  /\ \E i \in 1..Len(arg) : arg[i] \in AsciiLetters

\* the rule C3 gives each keyword of mathKeywords: 7 is the generic "math"
KeywordRule(k) ==
  IF k = <<"i", "n", "t", "e", "g", "r", "a", "l">> THEN 1
  ELSE IF k = derivative THEN 2
  ELSE IF k = matrix THEN 3
  ELSE IF k \in {<<"t", "r", "i", "g", "o", "n", "o", "m", "e", "t", "r", "y">>,
                 sin, cos, tan} THEN 4
  ELSE IF k \in {geometry, area, volume, perimeter} THEN 5
  ELSE IF k \in {probability, statistics} THEN 6
  ELSE 7

RuleTag(n) == IF n = 7 THEN "math" ELSE PriorityRules[n].tag

\* q holds a keyword of a rule that comes before rule n
HigherPriorityKeyword(q, n) ==
  \/ \E m \in 1..(n - 1) : m <= Len(PriorityRules) /\ RuleMatches(q, m)
  \/ \E i \in 1..Len(mathKeywords) :
       KeywordRule(mathKeywords[i]) < n /\ includes(q, mathKeywords[i])

\* C3: a text that contains a keyword of mathKeywords and no keyword of a rule of
\* higher priority gets the tag of that keyword: "integral" gives integrals,
\* "derivative" calculus, "matrix" linear_algebra, and so on, the others math.
C3_KeywordTag ==
  Classified =>
    \A i \in 1..Len(mathKeywords) :
      LET k == mathKeywords[i]
          q == toLowerCase(arg)
      IN  (includes(q, k) /\ ~HigherPriorityKeyword(q, KeywordRule(k)))
            => tag = RuleTag(KeywordRule(k))

\* the uppercase of every character that has one
UpperMap ==
  [c \in Range(LowerLatin) \cup Range(LowerGreek) |->
     IF c \in Range(LowerLatin)
       THEN UpperLatin[CHOOSE i \in 1..26 : LowerLatin[i] = c]
       ELSE UpperGreek[CHOOSE i \in 1..6 : LowerGreek[i] = c]]

\* the character with its letter case changed
FlipChar(c) ==
  IF c \in DOMAIN LowerMap THEN LowerMap[c]
  ELSE IF c \in DOMAIN UpperMap THEN UpperMap[c]
  ELSE c

FlipCase(s, i) == [s EXCEPT ![i] = FlipChar(@)]

\* C8: changing the letter case of any one character of the text, Latin or Greek,
\* leaves the tag unchanged.
C8_CaseInsensitive ==
  Classified =>
    \A i \in 1..Len(arg) : classifyMathQuestion(FlipCase(arg, i)) = tag

(***************************************************************************)
(* Properties of the handlers, under Spec and SpecConcurrent               *)
(***************************************************************************)
Finished(r) == reqs[r].pc \in {"done", "escaped"}

\* the optional string is undefined, empty or white space only
Blank(v) == \A s \in v : \A i \in 1..Len(s) : s[i] \in WhiteSpace

\* the optional string is undefined or empty
Empty(v) == \A s \in v : s = <<>>

Rejected400(r) ==
  /\ Len(reqs[r].sent) = 1
  /\ reqs[r].sent[1].status = 400
  /\ reqs[r].sent[1].success = FALSE

\* C4 as stated: a POST /ask whose question is empty or white space only is answered
\* with success: false and resolveQuery is never called for it.
C4_Original ==
  \A r \in Requests :
    (reqs[r].route = "ask" /\ Blank(reqs[r].question)) =>
      /\ reqs[r].calls = <<>>
      /\ Finished(r) => Rejected400(r)

\* C4 as amended: a POST /ask whose question is missing or the empty string is
\* answered with success: false and resolveQuery is never called for it; every other
\* question, white space only included, is passed to resolveQuery unchanged.
C4_EmptyRejected ==
  \A r \in Requests :
    reqs[r].route = "ask" =>
      IF Empty(reqs[r].question)
        THEN reqs[r].calls = <<>> /\ Rejected400(r)
        ELSE /\ Len(reqs[r].calls) = 1
             /\ {reqs[r].calls[1].query} = reqs[r].question

\* a POST /ask with the empty string was rejected without a call
C4_Witness ==
  \E r \in Requests :
    /\ reqs[r].route = "ask"
    /\ reqs[r].question = {<<>>}
    /\ Rejected400(r)
    /\ reqs[r].calls = <<>>

\* C5: when the extraction, the transcription or resolveQuery throws or rejects, the
\* handler answers with success: false and a non-empty error, and no exception
\* leaves the handler.
C5_FailureAnswered ==
  \A r \in Requests :
    reqs[r].error \in {"extract", "resolve"} =>
      /\ reqs[r].pc = "done"
      /\ Len(reqs[r].sent) = 1
      /\ reqs[r].sent[1].success = FALSE
      /\ reqs[r].sent[1].error # ""

\* C6: a request is never answered twice, and a handler that has ended, on whatever
\* path, has answered it.
C6_ExactlyOneResponse ==
  \A r \in Requests :
    /\ Len(reqs[r].sent) <= 1
    /\ Finished(r) => Len(reqs[r].sent) = 1

\* the request carries its input and its extraction yielded text
InputWithText(r) ==
  IF reqs[r].route = "ask" THEN ~Empty(reqs[r].question)
  ELSE reqs[r].file /\ ~Empty(reqs[r].text)

\* C7 as stated: resolveQuery is never called twice for a request, and a request
\* whose input is present and whose extraction yields text has it called once before
\* the response.
C7_Original ==
  \A r \in Requests :
    /\ Len(reqs[r].calls) <= 1
    /\ (Finished(r) /\ InputWithText(r)) => Len(reqs[r].calls) = 1

\* the handler gets as far as its call of resolveQuery
ReachesResolve(r) ==
  LET q == reqs[r]
      unlinked == q.file /\ q.error \notin {"read", "extract", "unlink"}
  IN  CASE q.route = "ask" -> ~Empty(q.question)
        [] q.route = "image" -> unlinked /\ q.text # Undefined
        [] q.route = "pdf" -> /\ unlinked /\ q.text # Undefined
                              /\ q.error # "questions" /\ ~Empty(q.question)
        [] q.route \in {"audio", "video"} -> unlinked /\ ~Empty(q.text)
        [] OTHER -> FALSE

\* C7 as amended: resolveQuery is never called twice for a request; it is called once,
\* before the response, exactly for the requests that reach the resolve step: a text
\* request with a non-empty question; an image request whose OCR succeeded, an audio
\* or video request whose transcript is not empty, and a PDF request whose text and
\* questions were extracted and that carries a question, each with its upload
\* unlinked without an exception.  Every other request, a PDF request without a question among them, is
\* answered without a call.
C7_OnceIffResolveReached ==
  \A r \in Requests :
    /\ Len(reqs[r].calls) <= 1
    /\ Finished(r) => (Len(reqs[r].calls) = 1 <=> ReachesResolve(r))
    /\ reqs[r].pc = "resolve" => (Len(reqs[r].calls) = 1 /\ reqs[r].sent = <<>>)
    /\ reqs[r].calls # <<>> => ReachesResolve(r)

\* a PDF request with its text extracted and no question was answered with the list
\* of questions and without a call
C7_Witness ==
  \E r \in Requests :
    /\ reqs[r].route = "pdf"
    /\ ~Empty(reqs[r].text)
    /\ reqs[r].question = Undefined
    /\ reqs[r].pc = "done"
    /\ reqs[r].sent[1].kind = "questions"
    /\ reqs[r].calls = <<>>

\* C9: for an image, audio or video request the query passed to resolveQuery is the
\* extracted text, unchanged, and the context passed holds that text as a contiguous
\* substring.
C9_ContextHoldsText ==
  \A r \in Requests :
    reqs[r].route \in {"image", "audio", "video"} =>
      \A i \in 1..Len(reqs[r].calls) :
        /\ {reqs[r].calls[i].query} = reqs[r].text
        /\ \E c \in reqs[r].calls[i].context : includes(c, reqs[r].calls[i].query)

\* an image request passed a non-empty OCR text to resolveQuery
C9_Witness ==
  \E r \in Requests :
    /\ reqs[r].route = "image"
    /\ Len(reqs[r].calls) = 1
    /\ reqs[r].calls[1].query = <<"Z">>

\* C10: under any interleaving, the upload of a request is removed exactly once, by
\* that request only, no later than its response and, on the success path, before
\* resolveQuery is called; unlinkSync is never called on a removed file.
C10_UploadRemovedOnce ==
  \A r \in Requests :
    /\ removedBy[r] \subseteq {r}
    /\ reqs[r].unlinks <= 1
    /\ reqs[r].absent = 0
    /\ reqs[r].pc = "resolve" => r \notin uploads
    /\ reqs[r].sent # <<>> => r \notin uploads
    /\ (reqs[r].file /\ Finished(r)) => (reqs[r].unlinks = 1 /\ r \notin uploads)
====
